---- MODULE Spec2Model ----
(***************************************************************************)
(* Model of verify_migration.py, the CrossCopy network-layer migration     *)
(* checklist: check_file_exists, check_file_content and main.              *)
(*                                                                         *)
(* Text is modelled as a sequence of symbols (strings).  The emoji and the *)
(* Chinese literals of the script are written as ASCII symbols, one symbol *)
(* per literal; a printed line is the sequence of the symbols it is made   *)
(* of, and the output of a run is the sequence of its printed lines.       *)
(***************************************************************************)
EXTENDS Integers, Sequences, FiniteSets

VARIABLES
    fs,                 \* the working directory: path -> [kind, content]
    mode,               \* "main": the script is run; "call": check_file_content is called directly
    pc,                 \* position of the running code
    all_checks_passed,  \* main's accumulator (line 56)
    i,                  \* index of the running for loop (lines 124, 135)
    frame,              \* arguments of the running check_file_content call
    ret,                \* value returned by the last check
    out,                \* lines printed so far
    exitCode,           \* -1 while running, then the exit code of the process
    calls,              \* history: the checks called so far, and what each saw
    run,                \* 1 for the first run of the script, 2 for the second
    out1,               \* output of the first run, once it ended
    exit1,              \* exit code of the first run, once it ended
    envOps              \* number of steps the concurrent process has taken

vars == <<fs, mode, pc, all_checks_passed, i, frame, ret, out, exitCode,
          calls, run, out1, exit1, envOps>>

----------------------------------------------------------------------------
(* Bounds of the model *)

\* files of the working directory that differ from a fully migrated project
MaxDefects == 1
\* length of the requirements list of a direct check_file_content call
MaxReqs == 2
\* length (in symbols) of the file read by a direct check_file_content call
MaxContentLen == 2
\* steps of the concurrent process during one run
MaxEnvOps == 1

----------------------------------------------------------------------------
(* Symbols *)

CheckMark == "[U+2705]"
CrossMark == "[U+274C]"
PageMark  == "[U+1F4C4]"
NL        == "\n"
DotStar   == ".*"

----------------------------------------------------------------------------
(* The filesystem *)

AbsentFile == [kind |-> "absent", content |-> <<>>]

TextFile(text) == [kind |-> "file", content |-> text]

\* an existing path whose read fails: a directory, a file without read
\* permission, a file whose bytes are not UTF-8
UnreadableKinds == {"dir", "noperm", "badutf8"}

os_path_exists(f) == f.kind # "absent"

\* mutant of open_read: the file is opened for writing, which truncates it
open_truncate(f) ==
    [err   |-> CASE f.kind = "file"    -> ""
                 [] f.kind = "absent"  -> "FileNotFoundError"
                 [] f.kind = "dir"     -> "IsADirectoryError"
                 [] f.kind = "noperm"  -> "PermissionError"
                 [] f.kind = "badutf8" -> "UnicodeDecodeError",
     text  |-> IF f.kind = "file" THEN f.content ELSE <<>>,
     after |-> IF f.kind = "file" THEN [f EXCEPT !.content = <<>>] ELSE f]

\* with open(file_path, 'r', encoding='utf-8') as f: content = f.read()
\* err is the exception raised, "" when none; after is the file once closed
open_read(f) ==
    [err   |-> CASE f.kind = "file"    -> ""
                 [] f.kind = "absent"  -> "FileNotFoundError"
                 [] f.kind = "dir"     -> "IsADirectoryError"
                 [] f.kind = "noperm"  -> "PermissionError"
                 [] f.kind = "badutf8" -> "UnicodeDecodeError",
     text  |-> IF f.kind = "file" THEN f.content ELSE <<>>,
     after |-> f]

\* mutant of except_Exception: except OSError
except_OSError(e) == e \in {"FileNotFoundError", "IsADirectoryError", "PermissionError"}

\* mutant of except_Exception: except UnicodeDecodeError
except_UnicodeDecodeError(e) == e = "UnicodeDecodeError"

\* except Exception as e: every exception open and read raise is an Exception
except_Exception(e) == e # ""

----------------------------------------------------------------------------
(* re.search(pattern, content, re.MULTILINE) for the patterns of the       *)
(* script: literals and ".*".  A pattern is a sequence of symbols, DotStar *)
(* standing for ".*" ; "." matches any symbol but a newline.               *)

RECURSIVE MatchAt(_, _, _, _)
MatchAt(pattern, k, content, j) ==
    IF k > Len(pattern) THEN TRUE
    ELSE IF pattern[k] = DotStar
         THEN \E e \in j..(Len(content) + 1) :
                  /\ \A m \in j..(e - 1) : content[m] # NL
                  /\ MatchAt(pattern, k + 1, content, e)
         ELSE /\ j <= Len(content)
              /\ content[j] = pattern[k]
              /\ MatchAt(pattern, k + 1, content, j + 1)

\* mutant of re_search: re.DOTALL, "." matches a newline too
RECURSIVE MatchAtDotAll(_, _, _, _)
MatchAtDotAll(pattern, k, content, j) ==
    IF k > Len(pattern) THEN TRUE
    ELSE IF pattern[k] = DotStar
         THEN \E e \in j..(Len(content) + 1) : MatchAtDotAll(pattern, k + 1, content, e)
         ELSE /\ j <= Len(content)
              /\ content[j] = pattern[k]
              /\ MatchAtDotAll(pattern, k + 1, content, j + 1)

re_search_dotall(pattern, content) ==
    \E j \in 1..(Len(content) + 1) : MatchAtDotAll(pattern, 1, content, j)

re_search(pattern, content) ==
    \E j \in 1..(Len(content) + 1) : MatchAt(pattern, 1, content, j)

----------------------------------------------------------------------------
(* check_file_exists and check_file_content *)

\* "substring in string", for a one-symbol substring
In(sym, line) == \E k \in 1..Len(line) : line[k] = sym

ExistsLine(description, file_path) ==
    <<CheckMark, " ">> \o description \o <<": ", file_path>>

NotExistsLine(description, file_path) ==
    <<CrossMark, " ">> \o description \o <<": ", file_path, " (absent)">>

\* check_file_exists: the value returned and the line printed
check_file_exists(f, file_path, description) ==
    IF os_path_exists(f)
    THEN [ret |-> TRUE,  line |-> ExistsLine(description, file_path)]
    ELSE [ret |-> FALSE, line |-> NotExistsLine(description, file_path)]

NotFoundLine(description, file_path) ==
    <<CrossMark, " ">> \o description \o <<": ", file_path, " (file absent)">>

HeaderLine(description, file_path) ==
    <<PageMark, " ">> \o description \o <<": ", file_path>>

ReadFailLine(description, e) ==
    <<CrossMark, " ">> \o description \o <<": read failed - ", e>>

\* lines 33-36: one result line per requirement
ResultLine(req, content) ==
    IF re_search(req.pattern, content)
    THEN <<"  ", CheckMark, " ">> \o req.desc
    ELSE <<"  ", CrossMark, " ">> \o req.desc

Results(patterns, content) ==
    [k \in 1..Len(patterns) |-> ResultLine(patterns[k], content)]

\* mutant of AllResults: any(...) in place of all(...)
AnyResult(results) == \E k \in 1..Len(results) : In(CheckMark, results[k])

\* line 42: all("[U+2705]" in result for result in results)
AllResults(results) == \A k \in 1..Len(results) : In(CheckMark, results[k])

----------------------------------------------------------------------------
(* The literals of main *)

Req(pattern, desc) == [pattern |-> pattern, desc |-> <<desc>>]

\* lines 60-64
cargo_patterns == <<
    Req(<<"libp2p", DotStar, "=", DotStar, "{", DotStar, "version", DotStar,
          "=", DotStar, "\"0.53\"">>, "libp2p dependency added"),
    Req(<<"\"tcp\"">>, "libp2p TCP feature configured"),
    Req(<<"futures", DotStar, "=", DotStar, "\"0.3\"">>, "futures dependency updated") >>

\* lines 69-74
config_patterns == <<
    Req(<<"pub enable_mdns: bool">>, "enable_mdns field added"),
    Req(<<"pub mdns_discovery_interval: u64">>, "mdns_discovery_interval field added"),
    Req(<<"pub enable_quic: bool">>, "enable_quic field added"),
    Req(<<"pub idle_connection_timeout: u64">>, "idle_connection_timeout field added") >>

\* lines 79-84
error_patterns == <<
    Req(<<"MdnsDiscoveryFailed(String)">>, "MdnsDiscoveryFailed error added"),
    Req(<<"Libp2p(String)">>, "Libp2p error added"),
    Req(<<"PeerNotFound(String)">>, "PeerNotFound error added"),
    Req(<<"Transport(String)">>, "Transport error added") >>

\* lines 89-94
connection_patterns == <<
    Req(<<"use libp2p::{PeerId, Multiaddr}">>, "libp2p types imported"),
    Req(<<"pub peer_id: Option<PeerId>">>, "peer_id field added"),
    Req(<<"pub address: Option<Multiaddr>">>, "address field added"),
    Req(<<"pub message_sender: Option<mpsc::UnboundedSender<Message>>">>,
        "message_sender field added") >>

\* lines 99-104
manager_patterns == <<
    Req(<<"use libp2p::">>, "libp2p imported"),
    Req(<<"CrossCopyBehaviour">>, "CrossCopyBehaviour defined"),
    Req(<<"mdns::Event::Discovered">>, "mDNS discovery event handling"),
    Req(<<"SwarmEvent::">>, "Swarm event handling") >>

\* lines 109-122
doc_files == <<
    [file_path |-> "doc/technical-specification.md",
     patterns  |-> << Req(<<"libp2p protocol stack">>, "technical specification updated to libp2p"),
                      Req(<<"mDNS discovery">>, "mDNS discovery mechanism documented") >>],
    [file_path |-> "doc/api-reference.md",
     patterns  |-> << Req(<<"enable_mdns: bool">>, "API documentation updated"),
                      Req(<<"mdns_discovery_interval: u64">>, "mDNS configuration documented") >>],
    [file_path |-> "doc/architecture.md",
     patterns  |-> << Req(<<"libp2p", DotStar, "peer-to-peer network communication">>,
                          "architecture documentation updated"),
                      Req(<<"mDNS automatic node discovery">>, "mDNS architecture explained") >>] >>

\* lines 129-133
test_files == << "tests/network_libp2p_test.rs",
                 "examples/libp2p_network_demo.rs",
                 "NETWORK_MIGRATION.md" >>

\* the check_file_content calls of sections 1 to 5 (lines 65, 75, 85, 95, 105)
Sections == <<
    [title |-> "1. check dependency update", file_path |-> "Cargo.toml",
     patterns |-> cargo_patterns, description |-> <<"Cargo.toml dependency configuration">>],
    [title |-> "2. check configuration structure update", file_path |-> "src/config/mod.rs",
     patterns |-> config_patterns, description |-> <<"NetworkConfig structure">>],
    [title |-> "3. check network error type update", file_path |-> "src/network/mod.rs",
     patterns |-> error_patterns, description |-> <<"network error type">>],
    [title |-> "4. check connection structure update", file_path |-> "src/network/connection.rs",
     patterns |-> connection_patterns, description |-> <<"Connection structure">>],
    [title |-> "5. check network manager update", file_path |-> "src/network/manager.rs",
     patterns |-> manager_patterns, description |-> <<"NetworkManager implementation">>] >>

\* line 125: f"doc: {file_path}"
DocDescription(file_path) == <<"doc: ", file_path>>

\* line 136
TestDescription == <<"test/example file">>

\* lines 48-49
TitleLines == << <<"CrossCopy network layer migration verification">>,
                 <<"========================================">> >>

\* line 53
PreconditionLine == <<CrossMark, " run this script in the project root directory">>

\* print("\n<title>"): an empty line, then the title
SectionLines(title) == << <<>>, <<title>> >>

\* lines 139-151
SuccessBanner == <<
    <<>>,
    <<"========================================">>,
    <<"[U+1F389]", " all checks passed, network layer migration complete">>,
    <<>>,
    <<"migration summary:">>,
    <<CheckMark, " WebSocket -> libp2p migration complete">>,
    <<CheckMark, " mDNS automatic discovery implemented">>,
    <<CheckMark, " configuration structure updated">>,
    <<CheckMark, " documentation updated">>,
    <<CheckMark, " tests and examples created">>,
    <<>>,
    <<"next steps:">>,
    <<"1. run 'cargo check' to check the build">>,
    <<"2. run 'cargo test' to run the tests">>,
    <<"3. run 'cargo run --example libp2p_network_demo' to see the demo">> >>

\* lines 139, 153
WarningBanner == <<
    <<>>,
    <<"========================================">>,
    <<"[U+26A0]", "  some checks failed, see the problems above">> >>

\* line 140
FinalBanner(passed) == IF passed THEN SuccessBanner ELSE WarningBanner

\* mutant of FinalExit: sys.exit(1) outside the else branch
AlwaysExit1(passed) == 1

\* line 154, and falling off the end of main
FinalExit(passed) == IF passed THEN 0 ELSE 1

\* mutant of AndAssign: = in place of &=
AndAssignOverwrite(acc, result) == result

\* all_checks_passed &= <result>
AndAssign(acc, result) == acc /\ result

\* mutant of AndAssignCalls: acc = acc and f(), which skips f once acc is false
ShortCircuit(acc) == acc

\* "acc &= f()" calls f whatever acc is: & does not short-circuit
AndAssignCalls(acc) == TRUE

\* mutant of PreconditionMissing: the precondition is not tested
PreconditionUnchecked(dir) == FALSE

\* line 52
PreconditionMissing(dir) == ~os_path_exists(dir["Cargo.toml"])

----------------------------------------------------------------------------
(* Working directories *)

ContentPaths == {Sections[k].file_path : k \in 1..Len(Sections)}
                    \cup {doc_files[k].file_path : k \in 1..Len(doc_files)}

TestPaths == {test_files[k] : k \in 1..Len(test_files)}

Paths == ContentPaths \cup TestPaths

\* the requirements main checks on a path
PatternsOf(path) ==
    IF \E k \in 1..Len(Sections) : Sections[k].file_path = path
    THEN Sections[CHOOSE k \in 1..Len(Sections) : Sections[k].file_path = path].patterns
    ELSE IF \E k \in 1..Len(doc_files) : doc_files[k].file_path = path
         THEN doc_files[CHOOSE k \in 1..Len(doc_files) : doc_files[k].file_path = path].patterns
         ELSE <<>>

\* a line of text on which the pattern matches: every ".*" spans one blank
MatchingLine(pattern) ==
    [k \in 1..Len(pattern) |-> IF pattern[k] = DotStar THEN " " ELSE pattern[k]]

\* a text on which the pattern does not match: the line is left out, or
\* (with a ".*" in the pattern) broken where the ".*" stands
MissingLine(pattern) ==
    IF In(DotStar, pattern)
    THEN [k \in 1..Len(pattern) |-> IF pattern[k] = DotStar THEN NL ELSE pattern[k]]
    ELSE <<>>

\* the text of a file: one line per requirement, those of `missing` spoilt
RECURSIVE TextOf(_, _, _)
TextOf(patterns, missing, k) ==
    IF k > Len(patterns) THEN <<>>
    ELSE (IF k \in missing THEN MissingLine(patterns[k].pattern)
                           ELSE MatchingLine(patterns[k].pattern))
         \o <<NL>> \o TextOf(patterns, missing, k + 1)

\* the file of a fully migrated project
Migrated(path) == TextFile(TextOf(PatternsOf(path), {}, 1))

\* the other states of a path
Variants(path) ==
    {AbsentFile}
    \cup (IF path \in ContentPaths
          THEN {[kind |-> kd, content |-> <<>>] : kd \in UnreadableKinds}
               \cup {TextFile(TextOf(PatternsOf(path), missing, 1)) :
                        missing \in (SUBSET (1..Len(PatternsOf(path)))) \ {{}}}
          ELSE {[kind |-> "dir", content |-> <<>>]})

\* the working directories with at most n paths that are not Migrated
RECURSIVE Directories(_)
Directories(n) ==
    IF n = 0 THEN {[path \in Paths |-> Migrated(path)]}
    ELSE LET less == Directories(n - 1)
         IN  less \cup UNION {{[d EXCEPT ![path] = v] : v \in Variants(path), d \in less} :
                                 path \in Paths}

\* the inputs of a direct call of check_file_content
CallSymbols == {"a", "b", NL}

RECURSIVE SeqsUpTo(_, _)
SeqsUpTo(S, n) ==
    IF n = 0 THEN {<<>>}
    ELSE LET shorter == SeqsUpTo(S, n - 1)
         IN  shorter \cup {Append(q, x) : q \in shorter, x \in S}

CallPath == "Cargo.toml"

CallFiles ==
    {AbsentFile} \cup {[kind |-> kd, content |-> <<>>] : kd \in UnreadableKinds}
                 \cup {TextFile(t) : t \in SeqsUpTo(CallSymbols, MaxContentLen)}

CallPatterns == {<<"a">>, <<"b">>, <<"a", DotStar, "b">>}

CallDescs == {<<"d">>, <<"d ", CheckMark>>}

CallRequirements ==
    SeqsUpTo({[pattern |-> pt, desc |-> ds] : pt \in CallPatterns, ds \in CallDescs}, MaxReqs)

----------------------------------------------------------------------------
(* State *)

NoFrame == [file_path |-> "", patterns |-> <<>>, description |-> <<>>, next |-> ""]

\* history entry of a check: what os.path.exists and open found ("" when the
\* code did not get there) and the value returned
Called(fn, file_path) ==
    [fn |-> fn, file_path |-> file_path, exists_saw |-> "", open_saw |-> "",
     returned |-> FALSE, ret |-> FALSE]

SetLast(q, field, v) == [q EXCEPT ![Len(q)] = [@ EXCEPT ![field] = v]]

InitRun ==
    /\ all_checks_passed = FALSE
    /\ i = 0
    /\ ret = FALSE
    /\ out = <<>>
    /\ exitCode = -1
    /\ run = 1
    /\ out1 = <<>>
    /\ exit1 = -1
    /\ envOps = 0

\* python3 verify_migration.py in some working directory
InitMain ==
    /\ fs \in Directories(MaxDefects)
    /\ mode = "main"
    /\ pc = "start"
    /\ frame = NoFrame
    /\ calls = <<>>
    /\ InitRun

\* check_file_content(CallPath, patterns, description) called on its own
InitCall ==
    /\ \E f \in CallFiles : fs = [[path \in Paths |-> Migrated(path)] EXCEPT ![CallPath] = f]
    /\ mode = "call"
    /\ pc = "cfc_exists"
    /\ \E reqs \in CallRequirements :
           frame = [file_path |-> CallPath, patterns |-> reqs,
                    description |-> <<"label">>, next |-> "returned"]
    /\ calls = <<Called("check_file_content", CallPath)>>
    /\ InitRun

Init == InitMain \/ InitCall

----------------------------------------------------------------------------
(* check_file_content, in the two steps at which it reads the directory *)

\* all_checks_passed &= check_file_content(file_path, patterns, description):
\* entering check_file_content from main; main goes on at `next`
Call(file_path, patterns, description, next) ==
    IF AndAssignCalls(all_checks_passed)
    THEN /\ frame' = [file_path |-> file_path, patterns |-> patterns,
                      description |-> description, next |-> next]
         /\ calls' = Append(calls, Called("check_file_content", file_path))
         /\ pc' = "cfc_exists"
    ELSE /\ pc' = next
         /\ UNCHANGED <<frame, calls>>

\* leaving it with a value
Return(history, value) ==
    /\ ret' = value
    /\ calls' = SetLast(SetLast(history, "ret", value), "returned", TRUE)
    /\ pc' = IF mode = "main" THEN "accumulate" ELSE "returned"

\* lines 23-25
CfcExists ==
    /\ pc = "cfc_exists"
    /\ LET f    == fs[frame.file_path]
           seen == SetLast(calls, "exists_saw", f.kind)
       IN  IF ~os_path_exists(f)
           THEN /\ out' = Append(out, NotFoundLine(frame.description, frame.file_path))
                /\ Return(seen, FALSE)
           ELSE /\ pc' = "cfc_open"
                /\ calls' = seen
                /\ UNCHANGED <<out, ret>>
    /\ UNCHANGED <<fs, mode, all_checks_passed, i, frame, exitCode, run, out1, exit1, envOps>>

\* lines 27-45
CfcRead ==
    /\ pc = "cfc_open"
    /\ LET f       == fs[frame.file_path]
           opened  == open_read(f)
           seen    == SetLast(calls, "open_saw", f.kind)
           results == Results(frame.patterns, opened.text)
       IN  /\ fs' = [fs EXCEPT ![frame.file_path] = opened.after]
           /\ IF opened.err = ""
              THEN /\ out' = out \o <<HeaderLine(frame.description, frame.file_path)>>
                                 \o results
                   /\ Return(seen, AllResults(results))
                   /\ UNCHANGED exitCode
              ELSE IF except_Exception(opened.err)
                   THEN /\ out' = Append(out, ReadFailLine(frame.description, opened.err))
                        /\ Return(seen, FALSE)
                        /\ UNCHANGED exitCode
                   ELSE \* the exception leaves check_file_content and main
                        /\ out' = Append(out, <<"Traceback", opened.err>>)
                        /\ pc' = "crashed"
                        /\ exitCode' = 1
                        /\ calls' = seen
                        /\ UNCHANGED ret
    /\ UNCHANGED <<mode, all_checks_passed, i, frame, run, out1, exit1, envOps>>

----------------------------------------------------------------------------
(* main *)

\* lines 48-56
Start ==
    /\ mode = "main"
    /\ pc = "start"
    /\ IF PreconditionMissing(fs)
       THEN /\ out' = out \o TitleLines \o <<PreconditionLine>>
            /\ exitCode' = 1
            /\ pc' = "exit"
            /\ UNCHANGED <<all_checks_passed, i>>
       ELSE /\ out' = out \o TitleLines
            /\ all_checks_passed' = TRUE
            /\ i' = 1
            /\ pc' = "section"
            /\ UNCHANGED exitCode
    /\ UNCHANGED <<fs, mode, frame, ret, calls, run, out1, exit1, envOps>>

\* lines 58-105: the header of section i, and its call of check_file_content
Section ==
    /\ pc = "section"
    /\ LET s == Sections[i]
       IN  /\ out' = out \o SectionLines(s.title)
           /\ Call(s.file_path, s.patterns, s.description,
                   IF i < Len(Sections) THEN "section" ELSE "doc_files")
    /\ i' = IF i < Len(Sections) THEN i + 1 ELSE 1
    /\ UNCHANGED <<fs, mode, all_checks_passed, ret, exitCode, run, out1, exit1, envOps>>

\* all_checks_passed &= check_file_content(...), lines 65, 75, 85, 95, 105, 125
Accumulate ==
    /\ pc = "accumulate"
    /\ all_checks_passed' = AndAssign(all_checks_passed, ret)
    /\ pc' = frame.next
    /\ UNCHANGED <<fs, mode, i, frame, ret, out, exitCode, calls, run, out1, exit1, envOps>>

\* lines 107-125: the header of section 6 and the loop over doc_files
DocFiles ==
    /\ pc = "doc_files"
    /\ LET d == doc_files[i]
       IN  /\ out' = out \o (IF i = 1 THEN SectionLines("6. check documentation update")
                                      ELSE <<>>)
           /\ Call(d.file_path, d.patterns, DocDescription(d.file_path),
                   IF i < Len(doc_files) THEN "doc_files" ELSE "test_files")
    /\ i' = IF i < Len(doc_files) THEN i + 1 ELSE 1
    /\ UNCHANGED <<fs, mode, all_checks_passed, ret, exitCode, run, out1, exit1, envOps>>

\* lines 127-136: the header of section 7 and the loop over test_files
TestFiles ==
    /\ pc = "test_files"
    /\ LET file_path == test_files[i]
           checked   == check_file_exists(fs[file_path], file_path, TestDescription)
           TestTitle == SectionLines("7. check test and example files")
       IN
           /\ IF AndAssignCalls(all_checks_passed)
              THEN /\ out' = out \o (IF i = 1 THEN TestTitle ELSE <<>>) \o <<checked.line>>
                   /\ ret' = checked.ret
                   /\ all_checks_passed' = AndAssign(all_checks_passed, checked.ret)
                   /\ calls' = Append(calls,
                          [Called("check_file_exists", file_path) EXCEPT
                              !.exists_saw = fs[file_path].kind,
                              !.returned = TRUE, !.ret = checked.ret])
              ELSE /\ out' = out \o (IF i = 1 THEN TestTitle ELSE <<>>)
                   /\ UNCHANGED <<ret, all_checks_passed, calls>>
    /\ i' = IF i < Len(test_files) THEN i + 1 ELSE i
    /\ pc' = IF i < Len(test_files) THEN "test_files" ELSE "summary"
    /\ UNCHANGED <<fs, mode, frame, exitCode, run, out1, exit1, envOps>>

\* lines 138-154
Summary ==
    /\ pc = "summary"
    /\ out' = out \o FinalBanner(all_checks_passed)
    /\ exitCode' = FinalExit(all_checks_passed)
    /\ pc' = "exit"
    /\ UNCHANGED <<fs, mode, all_checks_passed, i, frame, ret, calls, run, out1, exit1, envOps>>

\* the script is run a second time in the directory the first run left
Rerun ==
    /\ mode = "main"
    /\ pc \in {"exit", "crashed"}
    /\ run = 1
    /\ run' = 2
    /\ out1' = out
    /\ exit1' = exitCode
    /\ pc' = "start"
    /\ out' = <<>>
    /\ exitCode' = -1
    /\ all_checks_passed' = FALSE
    /\ i' = 0
    /\ ret' = FALSE
    /\ frame' = NoFrame
    /\ calls' = <<>>
    /\ UNCHANGED <<fs, mode, envOps>>

----------------------------------------------------------------------------
(* A concurrent process that deletes and creates the checked files *)

Running == pc \notin {"exit", "crashed", "returned"}

EnvDelete ==
    /\ Running
    /\ envOps < MaxEnvOps
    /\ \E path \in Paths :
           /\ fs[path].kind # "absent"
           /\ fs' = [fs EXCEPT ![path] = AbsentFile]
    /\ envOps' = envOps + 1
    /\ UNCHANGED <<mode, pc, all_checks_passed, i, frame, ret, out, exitCode, calls,
                   run, out1, exit1>>

EnvCreate ==
    /\ Running
    /\ envOps < MaxEnvOps
    /\ \E path \in Paths :
           /\ fs[path].kind = "absent"
           /\ fs' = [fs EXCEPT ![path] = Migrated(path)]
    /\ envOps' = envOps + 1
    /\ UNCHANGED <<mode, pc, all_checks_passed, i, frame, ret, out, exitCode, calls,
                   run, out1, exit1>>

----------------------------------------------------------------------------
(* Specifications *)

Next ==
    \/ Start
    \/ Section
    \/ CfcExists
    \/ CfcRead
    \/ Accumulate
    \/ DocFiles
    \/ TestFiles
    \/ Summary
    \/ Rerun

\* runs of the script and direct calls, the directory left alone
Spec == Init /\ [][Next]_vars

\* one run of the script, in a directory with at most one file absent, beside
\* the concurrent process
InitEnv ==
    /\ InitMain
    /\ \E path \in Paths : fs \in {[path2 \in Paths |-> Migrated(path2)],
                                   [[path2 \in Paths |-> Migrated(path2)] EXCEPT ![path] = AbsentFile]}

NextEnv ==
    \/ Start
    \/ Section
    \/ CfcExists
    \/ CfcRead
    \/ Accumulate
    \/ DocFiles
    \/ TestFiles
    \/ Summary
    \/ EnvDelete
    \/ EnvCreate

SpecEnv == InitEnv /\ [][NextEnv]_vars

----------------------------------------------------------------------------
(* Vocabulary of the properties *)

\* a run of main has ended
MainEnded == mode = "main" /\ pc = "exit"

\* the checks of a run, as the specification lists them
ExpectedChecks == <<
    <<"check_file_content", "Cargo.toml">>,
    <<"check_file_content", "src/config/mod.rs">>,
    <<"check_file_content", "src/network/mod.rs">>,
    <<"check_file_content", "src/network/connection.rs">>,
    <<"check_file_content", "src/network/manager.rs">>,
    <<"check_file_content", "doc/technical-specification.md">>,
    <<"check_file_content", "doc/api-reference.md">>,
    <<"check_file_content", "doc/architecture.md">>,
    <<"check_file_exists", "tests/network_libp2p_test.rs">>,
    <<"check_file_exists", "examples/libp2p_network_demo.rs">>,
    <<"check_file_exists", "NETWORK_MIGRATION.md">> >>

\* the checks called so far, by function and path
Signatures == [k \in 1..Len(calls) |-> <<calls[k].fn, calls[k].file_path>>]

IsPrefix(p, q) == Len(p) <= Len(q) /\ \A k \in 1..Len(p) : p[k] = q[k]

AllReturned == \A k \in 1..Len(calls) : calls[k].returned

AllReturnedTrue == \A k \in 1..Len(calls) : calls[k].returned /\ calls[k].ret

Count(lines, line) == Cardinality({k \in 1..Len(lines) : lines[k] = line})

SuccessLine == <<"[U+1F389]", " all checks passed, network layer migration complete">>

WarningLine == <<"[U+26A0]", "  some checks failed, see the problems above">>

\* lines starting with a mark
Marked(lines, mark) == {k \in 1..Len(lines) : Len(lines[k]) > 0 /\ lines[k][1] = mark}

----------------------------------------------------------------------------
(* Properties *)

\* C1. Aggregation law: a run of main exits with 0 if and only if Cargo.toml
\* exists and every check_file_content and check_file_exists call of the run
\* returned true; otherwise it exits with 1.
AggregationLaw ==
    MainEnded =>
        /\ exitCode \in {0, 1}
        /\ exitCode = 0 <=> (fs["Cargo.toml"].kind # "absent" /\ AllReturnedTrue)

\* a run in which an early check failed and the later ones passed
AggregationWitness ==
    /\ MainEnded
    /\ exitCode = 1
    /\ Len(calls) = Len(ExpectedChecks)
    /\ ~calls[2].ret
    /\ \A k \in 3..Len(calls) : calls[k].ret

\* C2. Without Cargo.toml main prints one error line and exits with 1: no
\* check is called and neither final banner is printed.
PreconditionAbort ==
    (mode = "main" /\ pc # "start" /\ fs["Cargo.toml"].kind = "absent") =>
        /\ pc = "exit"
        /\ exitCode = 1
        /\ calls = <<>>
        /\ out = TitleLines \o <<PreconditionLine>>
        /\ Cardinality(Marked(out, CrossMark)) = 1
        /\ Count(out, SuccessLine) = 0
        /\ Count(out, WarningLine) = 0

PreconditionAbortWitness ==
    /\ MainEnded
    /\ fs["Cargo.toml"].kind = "absent"
    /\ exitCode = 1

\* C3. Once the precondition passed, the checks are called once each, in the
\* fixed order, whatever the earlier checks returned; a run that has not
\* exited can always take its next step, and it ends with exactly one of the
\* two final banners.
RunsToCompletion ==
    mode = "main" =>
        /\ pc # "crashed"
        /\ pc # "exit" => ENABLED Next
        /\ IsPrefix(Signatures, ExpectedChecks)
        /\ (pc = "exit" /\ fs["Cargo.toml"].kind # "absent") =>
               /\ Signatures = ExpectedChecks
               /\ AllReturned
               /\ Count(out, SuccessLine) + Count(out, WarningLine) = 1
               /\ out[Len(out)] = IF Count(out, SuccessLine) = 1
                                  THEN SuccessBanner[Len(SuccessBanner)]
                                  ELSE WarningLine

\* a run whose first check failed and which called all the others
RunsToCompletionWitness ==
    /\ MainEnded
    /\ Len(calls) = Len(ExpectedChecks)
    /\ ~calls[1].ret
    /\ calls[Len(calls)].returned

----------------------------------------------------------------------------
(* What "the pattern occurs in the text" means, stated without re_search *)

NoNewline(content, from, to) == \A m \in from..to : content[m] # NL

\* a pattern without ".*" occurs where its symbols stand in a row
LiteralAt(literal, content, j) ==
    /\ j + Len(literal) - 1 <= Len(content)
    /\ \A k \in 1..Len(literal) : content[j + k - 1] = literal[k]

\* a pattern "<before>.*<after>" occurs where both stand on one line, in order
Occurs(pattern, content) ==
    IF ~In(DotStar, pattern)
    THEN \E j \in 1..(Len(content) + 1) : LiteralAt(pattern, content, j)
    ELSE LET d      == CHOOSE k \in 1..Len(pattern) : pattern[k] = DotStar
             before == SubSeq(pattern, 1, d - 1)
             after  == SubSeq(pattern, d + 1, Len(pattern))
         IN  \E j \in 1..(Len(content) + 1) : \E e \in (j + Len(before))..(Len(content) + 1) :
                 /\ LiteralAt(before, content, j)
                 /\ NoNewline(content, j + Len(before), e - 1)
                 /\ LiteralAt(after, content, e)

\* a direct call of check_file_content has returned
CallReturned == mode = "call" /\ pc = "returned"

\* check_file_content has just returned, to main or to a direct caller
JustReturned == pc \in {"accumulate", "returned"}

\* the exception each unreadable kind of path raises
ErrorOf(kind) ==
    CASE kind = "dir"     -> "IsADirectoryError"
      [] kind = "noperm"  -> "PermissionError"
      [] kind = "badutf8" -> "UnicodeDecodeError"
      [] kind = "absent"  -> "FileNotFoundError"

----------------------------------------------------------------------------
\* C4. On an existing readable file check_file_content returns true exactly
\* when every pattern of the requirements list occurs in the text, whatever
\* the descriptions are.
ReturnsTrueIffAllMatch ==
    (CallReturned /\ fs[CallPath].kind = "file") =>
        (ret <=> \A k \in 1..Len(frame.patterns) :
                     Occurs(frame.patterns[k].pattern, fs[CallPath].content))

\* C5. On an absent file check_file_content returns false and prints the one
\* failure line, whatever the requirements list; with an empty list it
\* returns true exactly when the file exists and can be read.
AbsentFileFails ==
    CallReturned =>
        /\ fs[CallPath].kind = "absent" =>
               /\ ~ret
               /\ out = <<NotFoundLine(frame.description, CallPath)>>
               /\ Marked(out, PageMark) = {}
        /\ frame.patterns = <<>> => (ret <=> fs[CallPath].kind = "file")

\* the empty list on a readable file, which returns true
AbsentFileFailsWitness ==
    /\ CallReturned
    /\ frame.patterns = <<>>
    /\ fs[CallPath].kind = "file"
    /\ ret

\* C6. A failure to read an existing file is caught in check_file_content:
\* the check returns false and prints one failure line carrying the error,
\* the later checks of the run are all called and the run exits with 1.
ReadFailureCaught ==
    /\ pc # "crashed"
    /\ (JustReturned /\ calls[Len(calls)].open_saw \in UnreadableKinds) =>
           LET e == ErrorOf(calls[Len(calls)].open_saw)
           IN  /\ ~ret
               /\ out[Len(out)] = ReadFailLine(frame.description, e)
               /\ In(e, out[Len(out)])
               /\ Count(out, out[Len(out)]) = 1
               /\ Count(out, HeaderLine(frame.description, frame.file_path)) = 0
               /\ mode = "call" => Len(out) = 1
    /\ (MainEnded /\ \E k \in 1..Len(calls) : calls[k].open_saw \in UnreadableKinds) =>
           /\ Signatures = ExpectedChecks
           /\ AllReturned
           /\ exitCode = 1

\* a run that ended after reading a file of undecodable bytes
ReadFailureCaughtWitness ==
    /\ MainEnded
    /\ \E k \in 1..Len(calls) : calls[k].open_saw = "badutf8"
    /\ \E k \in 1..Len(calls) : calls[k].open_saw = "file"

\* the lines printed after the last rule line
AfterLastRule(lines) ==
    LET r == CHOOSE k \in 1..Len(lines) :
                 /\ lines[k] = TitleLines[2]
                 /\ \A m \in (k + 1)..Len(lines) : lines[m] # TitleLines[2]
    IN  SubSeq(lines, r + 1, Len(lines))

\* success banner, five confirmation lines, three next-step hints, exit 0
SuccessReport ==
    LET tail  == AfterLastRule(out)
        steps == CHOOSE k \in 1..Len(tail) : tail[k] = <<"next steps:">>
    IN  /\ tail[1] = SuccessLine
        /\ Cardinality(Marked(tail, CheckMark)) = 5
        /\ Count(tail, <<"next steps:">>) = 1
        /\ Len(tail) - steps = 3
        /\ \A k \in (steps + 1)..Len(tail) : Len(tail[k]) > 0
        /\ Count(out, WarningLine) = 0
        /\ exitCode = 0

\* C7, as stated. With the precondition present a run consists of nine
\* checks; when all report success the success banner is printed with five
\* confirmation lines and three hints, no warning banner, and the exit code is 0.
NineChecksSuccess ==
    (MainEnded /\ fs["Cargo.toml"].kind # "absent") =>
        /\ Len(calls) = 9
        /\ AllReturnedTrue => SuccessReport

\* C7, amended. With the precondition present a run consists of eleven
\* checks; when all report success the success banner is printed with five
\* confirmation lines and three hints, no warning banner, and the exit code is 0.
ElevenChecksSuccess ==
    (MainEnded /\ fs["Cargo.toml"].kind # "absent") =>
        /\ Len(calls) = 11
        /\ AllReturnedTrue => SuccessReport

ElevenChecksSuccessWitness ==
    /\ MainEnded
    /\ Len(calls) = 11
    /\ AllReturnedTrue
    /\ exitCode = 0

\* C8. Two runs in the same directory print the same lines and exit with the
\* same code, and no step of a run changes the directory.
SecondRunSame ==
    (mode = "main" /\ run = 2 /\ pc = "exit") => (out = out1 /\ exitCode = exit1)

Idempotence == []SecondRunSame /\ [][fs' = fs]_vars

\* a second run that ended after reading files and failing a check
IdempotenceWitness ==
    /\ mode = "main" /\ run = 2 /\ pc = "exit"
    /\ Len(calls) = Len(ExpectedChecks)
    /\ exit1 = 1
    /\ \E k \in 1..Len(calls) : calls[k].open_saw = "file"

\* the requirements a file built by TextOf lacks
MissingOf(file_path) ==
    CHOOSE missing \in SUBSET (1..Len(PatternsOf(file_path))) :
        fs[file_path].content = TextOf(PatternsOf(file_path), missing, 1)

\* requirement k of the running call occurs in the file: by the construction
\* of the file in a run of main, by Occurs in a direct call
Matched(k) ==
    IF mode = "call"
    THEN Occurs(frame.patterns[k].pattern, fs[frame.file_path].content)
    ELSE k \notin MissingOf(frame.file_path)

\* the result lines (two blanks, then a mark) carrying the mark
ResultMarked(lines, mark) ==
    {k \in 1..Len(lines) : Len(lines[k]) > 1 /\ lines[k][1] = "  " /\ lines[k][2] = mark}

\* C9. On an existing readable file check_file_content prints one header
\* line naming the file, then one line per requirement in the order of the
\* list, marked success exactly when the pattern matched; a Cargo.toml that
\* lacks one of its three patterns shows two successes and one failure, the
\* other checks are all called and the run exits with 1.
HeaderAndResultLines ==
    /\ (JustReturned /\ calls[Len(calls)].open_saw = "file") =>
           LET n    == Len(frame.patterns)
               base == Len(out) - n - 1
           IN  /\ base >= 0
               /\ mode = "call" => base = 0
               /\ out[base + 1] = <<PageMark, " ">> \o frame.description
                                      \o <<": ", frame.file_path>>
               /\ Count(out, out[base + 1]) = 1
               /\ \A k \in 1..n :
                      out[base + 1 + k] =
                          <<"  ", IF Matched(k) THEN CheckMark ELSE CrossMark, " ">>
                              \o frame.patterns[k].desc
    /\ \A m \in 1..Len(cargo_patterns) :
           (MainEnded /\ fs["Cargo.toml"] = TextFile(TextOf(cargo_patterns, {m}, 1))) =>
               LET section == SubSeq(out, 5, 5 + Len(cargo_patterns))
               IN  /\ section[1][1] = PageMark
                   /\ Cardinality(ResultMarked(section, CheckMark)) = 2
                   /\ ResultMarked(section, CrossMark) = {1 + m}
                   /\ ResultMarked(<<out[4], out[9]>>, CheckMark) = {}
                   /\ ResultMarked(<<out[4], out[9]>>, CrossMark) = {}
                   /\ ~calls[1].ret
                   /\ Signatures = ExpectedChecks
                   /\ AllReturned
                   /\ exitCode = 1

\* a run on a Cargo.toml whose libp2p line is broken over several lines
HeaderAndResultLinesWitness ==
    /\ MainEnded
    /\ fs["Cargo.toml"] = TextFile(TextOf(cargo_patterns, {1}, 1))
    /\ Len(calls) = Len(ExpectedChecks)

\* C10. Beside a process that deletes and creates the checked files, no
\* exception leaves check_file_content: a file removed between the existence
\* test and the open makes the check return false through the read-failure
\* branch; with Cargo.toml deleted after the precondition passed, the first
\* check returns false, the other checks are all called and the run exits
\* with 1.
RaceIsCaught ==
    /\ pc # "crashed"
    /\ (JustReturned /\ calls[Len(calls)].exists_saw # "absent"
                     /\ calls[Len(calls)].open_saw = "absent") =>
           /\ ~ret
           /\ out[Len(out)] = ReadFailLine(frame.description, "FileNotFoundError")
    /\ (MainEnded /\ calls # <<>>) =>
           /\ Signatures = ExpectedChecks
           /\ AllReturned
           /\ "absent" \in {calls[1].exists_saw, calls[1].open_saw} =>
                  (~calls[1].ret /\ exitCode = 1)

\* a run in which Cargo.toml was deleted between the existence test and the
\* open of the first check
RaceIsCaughtWitness ==
    /\ MainEnded
    /\ calls # <<>>
    /\ calls[1].exists_saw = "file"
    /\ calls[1].open_saw = "absent"
    /\ Len(calls) = Len(ExpectedChecks)

====
